---------------------------- MODULE Spec2Model ----------------------------
(***************************************************************************)
(* Model of src/vs/css.build.ts (CSSBuildLoaderPlugin): the path algebra   *)
(* of class Utilities and the url(...) rewriter / inliner of CSSPlugin.     *)
(*                                                                         *)
(* A JavaScript string is a sequence of one-character strings; indices in  *)
(* the helpers below are 0-based, as in the source.                        *)
(***************************************************************************)
EXTENDS Integers, Sequences, FiniteSets, TLC

VARIABLES
    jp,     \* one run of Utilities.joinPaths, iteration by iteration
    rt,     \* one evaluation of the path round trip
    \* the build the plugin runs in
    config,                 \* the loader configuration handed to every load()
    cssFiles,               \* module name -> text of its .css file on disk
    budget,                 \* how many write() and writeFile() calls the host makes
    \* the fields of CSSPlugin
    inlineResources,
    inlineResourcesLimit,
    contentsMap,            \* _contentsMap
    pathMap,                \* _pathMap
    entryPoints,            \* _entryPoints
    inlinedResources,       \* _inlinedResources
    \* what the host has seen
    markers,                \* the write.asModule(...) calls
    calls,                  \* the write() calls so far, in order
    wf                      \* the last writeFile() call and its outcome

pluginVars == <<config, cssFiles, budget, inlineResources, inlineResourcesLimit,
                contentsMap, pathMap, entryPoints, inlinedResources, markers, calls, wf>>
pathVars == <<jp, rt>>
vars == <<jp, rt, config, cssFiles, budget, inlineResources, inlineResourcesLimit,
          contentsMap, pathMap, entryPoints, inlinedResources, markers, calls, wf>>

---------------------------------------------------------------------------
(* JavaScript string primitives                                            *)

Min(a, b) == IF a <= b THEN a ELSE b
Max(a, b) == IF a >= b THEN a ELSE b

\* String.prototype.charAt: "" outside the string.
charAt(s, i) == IF i >= 0 /\ i < Len(s) THEN s[i + 1] ELSE ""

\* String.prototype.substring(i, j), 0 <= i <= j.
substring(s, i, j) == SubSeq(s, Min(i, Len(s)) + 1, Min(j, Len(s)))

\* String.prototype.substr(i) / substring(i).
substr(s, i) == SubSeq(s, Min(i, Len(s)) + 1, Len(s))

\* String.prototype.indexOf(ch, from): -1 when absent.
indexOf(s, ch, from) ==
    LET hits == {k \in from .. (Len(s) - 1) : s[k + 1] = ch}
    IN  IF hits = {} THEN -1 ELSE CHOOSE k \in hits : \A m \in hits : k <= m

\* String.prototype.lastIndexOf(ch): -1 when absent.
lastIndexOf(s, ch) ==
    LET hits == {k \in 0 .. (Len(s) - 1) : s[k + 1] = ch}
    IN  IF hits = {} THEN -1 ELSE CHOOSE k \in hits : \A m \in hits : k >= m

\* Array.prototype.join(''): the pieces one after the other.
RECURSIVE joinEmpty(_)
joinEmpty(pieces) ==
    IF pieces = <<>> THEN <<>> ELSE Head(pieces) \o joinEmpty(Tail(pieces))

\* str.split('/').length
splitLength(s) == Cardinality({k \in 1 .. Len(s) : s[k] = "/"}) + 1

---------------------------------------------------------------------------
(* Utilities: the path algebra                                             *)

startsWith(haystack, needle) ==
    /\ Len(haystack) >= Len(needle)
    /\ substring(haystack, 0, Len(needle)) = needle

pathOf(filename) ==
    LET lastSlash == lastIndexOf(filename, "/")
    IN  IF lastSlash # -1 THEN substring(filename, 0, lastSlash + 1) ELSE <<>>

findSlashIndexAfterPrefix(haystack, prefix) ==
    IF startsWith(haystack, prefix)
    THEN Max(Len(prefix), indexOf(haystack, "/", Len(prefix)))
    ELSE 0

\* aPathStartIndex = 0 || f(a,'//') || f(a,'http://') || f(a,'https://')
aPathStartIndex(a) ==
    LET i1 == findSlashIndexAfterPrefix(a, <<"/", "/">>)
        i2 == findSlashIndexAfterPrefix(a, <<"h", "t", "t", "p", ":", "/", "/">>)
        i3 == findSlashIndexAfterPrefix(a, <<"h", "t", "t", "p", "s", ":", "/", "/">>)
    IN  IF i1 # 0 THEN i1 ELSE IF i2 # 0 THEN i2 ELSE i3

DotSlash == <<".", "/">>
DotDotSlash == <<".", ".", "/">>
Slash == <<"/">>

\* pushPiece without the case for a piece that follows the root slash.
pushPieceNoRootCase(pieces, piece) ==
    IF piece = DotSlash THEN pieces
    ELSE IF piece = DotDotSlash /\ Len(pieces) > 0 /\ pieces[Len(pieces)] # DotDotSlash
         THEN SubSeq(pieces, 1, Len(pieces) - 1)
    ELSE Append(pieces, piece)

pushPiece(pieces, piece) ==
    IF piece = DotSlash THEN pieces
    ELSE IF piece = DotDotSlash /\ Len(pieces) > 0 /\ pieces[Len(pieces)] = Slash
         THEN pieces
    ELSE IF piece = DotDotSlash /\ Len(pieces) > 0 /\ pieces[Len(pieces)] # DotDotSlash
         THEN SubSeq(pieces, 1, Len(pieces) - 1)
    ELSE Append(pieces, piece)

\* One iteration of push's loop splits the path at its first '/'.
headPiece(path) ==
    LET slashIndex == indexOf(path, "/", 0)
    IN  IF slashIndex >= 0 THEN substring(path, 0, slashIndex + 1) ELSE path

tailPath(path) ==
    LET slashIndex == indexOf(path, "/", 0)
    IN  IF slashIndex >= 0 THEN substr(path, slashIndex + 1) ELSE <<>>

RECURSIVE push(_, _)
push(pieces, path) ==
    IF Len(path) = 0 THEN pieces
    ELSE push(pushPiece(pieces, headPiece(path)), tailPath(path))

joinPaths(a, b) ==
    LET start == aPathStartIndex(a)
        fromA == push(<<>>, substr(a, start))
        kept  == IF Len(b) > 0 /\ charAt(b, 0) = "/" THEN <<>> ELSE fromA
    IN  substring(a, 0, start) \o joinEmpty(push(kept, b))

commonPrefix(str1, str2) ==
    LET len == Min(Len(str1), Len(str2))
        diff == {i \in 0 .. (len - 1) : str1[i + 1] # str2[i + 1]}
    IN  IF diff = {} THEN substring(str1, 0, len)
        ELSE substring(str1, 0, CHOOSE i \in diff : \A m \in diff : i <= m)

commonFolderPrefix(fromPath, toPath) ==
    LET prefix == commonPrefix(fromPath, toPath)
        slashIndex == lastIndexOf(prefix, "/")
    IN  IF slashIndex = -1 THEN <<>> ELSE substring(prefix, 0, slashIndex + 1)

RECURSIVE ups(_)
ups(n) == IF n <= 0 THEN <<>> ELSE DotDotSlash \o ups(n - 1)

\* relativePath climbing once per chunk of the split, the file name included.
relativePathFullClimb(fromPath, toPath) ==
    IF \/ startsWith(toPath, <<"/">>)
       \/ startsWith(toPath, <<"h", "t", "t", "p", ":", "/", "/">>)
       \/ startsWith(toPath, <<"h", "t", "t", "p", "s", ":", "/", "/">>)
    THEN toPath
    ELSE LET prefix == commonFolderPrefix(fromPath, toPath)
             from1  == substr(fromPath, Len(prefix))
             to1    == substr(toPath, Len(prefix))
             upCount == splitLength(from1)
         IN  ups(upCount) \o to1

relativePath(fromPath, toPath) ==
    IF \/ startsWith(toPath, <<"/">>)
       \/ startsWith(toPath, <<"h", "t", "t", "p", ":", "/", "/">>)
       \/ startsWith(toPath, <<"h", "t", "t", "p", "s", ":", "/", "/">>)
    THEN toPath
    ELSE LET prefix == commonFolderPrefix(fromPath, toPath)
             from1  == substr(fromPath, Len(prefix))
             to1    == substr(toPath, Len(prefix))
             upCount == splitLength(from1)
         IN  ups(upCount - 1) \o to1

---------------------------------------------------------------------------
(* Node's fs and path modules, as the plugin uses them (POSIX)             *)

\* The segments of a path between its '/' separators, empty ones included.
RECURSIVE splitSlash(_)
splitSlash(p) ==
    LET i == indexOf(p, "/", 0)
    IN  IF i < 0 THEN <<p>> ELSE <<substring(p, 0, i)>> \o splitSlash(substr(p, i + 1))

\* path.normalize's segment walk: '' and '.' vanish, '..' climbs or is kept.
RECURSIVE normalizeSegments(_, _, _)
normalizeSegments(segs, acc, isAbsolute) ==
    IF segs = <<>> THEN acc
    ELSE LET seg == Head(segs)
             acc1 == IF seg = <<>> \/ seg = <<".">> THEN acc
                     ELSE IF seg = <<".", ".">>
                          THEN IF Len(acc) > 0 /\ acc[Len(acc)] # <<".", ".">>
                               THEN SubSeq(acc, 1, Len(acc) - 1)
                               ELSE IF isAbsolute THEN acc ELSE Append(acc, seg)
                     ELSE Append(acc, seg)
         IN  normalizeSegments(Tail(segs), acc1, isAbsolute)

RECURSIVE joinSlash(_)
joinSlash(segs) ==
    IF segs = <<>> THEN <<>>
    ELSE IF Len(segs) = 1 THEN Head(segs)
    ELSE Head(segs) \o <<"/">> \o joinSlash(Tail(segs))

pathNormalize(p) ==
    LET isAbsolute == charAt(p, 0) = "/"
        trailing == Len(p) > 0 /\ p[Len(p)] = "/"
        body == joinSlash(normalizeSegments(splitSlash(p), <<>>, isAbsolute))
        body1 == IF body = <<>> /\ ~isAbsolute THEN <<".">> ELSE body
        body2 == IF body # <<>> /\ trailing THEN body1 \o <<"/">> ELSE body1
    IN  IF isAbsolute THEN <<"/">> \o body2 ELSE body2

\* path.join(a, b): the non-empty arguments joined by '/', then normalized.
pathJoin(a, b) ==
    IF Len(a) = 0 /\ Len(b) = 0 THEN <<".">>
    ELSE IF Len(a) = 0 THEN pathNormalize(b)
    ELSE IF Len(b) = 0 THEN pathNormalize(a)
    ELSE pathNormalize(a \o <<"/">> \o b)

\* path.dirname(p) of a file path.
pathDirname(p) ==
    LET i == lastIndexOf(p, "/")
    IN  IF i < 0 THEN <<".">> ELSE IF i = 0 THEN <<"/">> ELSE substring(p, 0, i)

\* Buffer.toString('base64') is the library's: 4 characters for every 3 bytes,
\* padded with '='; its alphabet holds no quote, bracket or space. The symbol
\* "Q" stands for any of its 64 digits.
RECURSIVE base64(_)
base64(bytes) ==
    IF Len(bytes) = 0 THEN <<>>
    ELSE IF Len(bytes) = 1 THEN <<"Q", "Q", "=", "=">>
    ELSE IF Len(bytes) = 2 THEN <<"Q", "Q", "Q", "=">>
    ELSE <<"Q", "Q", "Q", "Q">> \o base64(SubSeq(bytes, 4, Len(bytes)))

\* str.replace(/c/g, by)
RECURSIVE replaceChar(_, _, _)
replaceChar(str, c, by) ==
    IF str = <<>> THEN <<>>
    ELSE (IF Head(str) = c THEN by ELSE <<Head(str)>>) \o replaceChar(Tail(str), c, by)

BOM == "BOM"
IsSpace(c) == c \in {" ", "\t", "\n", "\r", BOM}

\* str.replace(/\s+/g, ' ')
RECURSIVE collapseSpace(_)
collapseSpace(str) ==
    IF str = <<>> THEN <<>>
    ELSE IF IsSpace(Head(str))
         THEN IF Len(str) > 1 /\ IsSpace(str[2]) THEN collapseSpace(Tail(str))
              ELSE <<" ">> \o collapseSpace(Tail(str))
    ELSE <<Head(str)>> \o collapseSpace(Tail(str))

\* The files fs.readFileSync can read: a function from path to bytes. A path
\* outside its domain makes the read throw.
AssetFiles ==
    LET png3 == <<"P", "N", "G">>
        png6 == <<"P", "N", "G", "P", "N", "G">>
        svgSmall == <<"<", " ", "\n", "a", ">">>
        svgDense == <<"<", "\"", "#", "%", "&", ">">>
    IN  (<<"w", "/", "a", "/", "i", ".", "p", "n", "g">> :> png3)
     @@ (<<"w", "/", "i", ".", "p", "n", "g">> :> png6)
     @@ (<<"w", "/", "s", ".", "s", "v", "g">> :> svgSmall)
     @@ (<<"w", "/", "a", "/", "s", ".", "s", "v", "g">> :> svgDense)

\* req.toUrl(name): the host resolves a name under the build's base folder.
toUrl(name) == <<"w", "/">> \o name

DotCss == <<".", "c", "s", "s">>

---------------------------------------------------------------------------
(* CSSPlugin: the two replacers                                            *)

endsWith(str, suffix) ==
    Len(str) >= Len(suffix) /\ substr(str, Len(str) - Len(suffix)) = suffix

DotSvg == <<".", "s", "v", "g">>
DotPng == <<".", "p", "n", "g">>

\* fileContents.toString() with the seven replacements, in the source's order.
svgText(bytes) ==
    collapseSpace(
      replaceChar(
        replaceChar(
          replaceChar(
            replaceChar(
              replaceChar(
                replaceChar(bytes, "\"", <<"'">>),
                "%", <<"%", "2", "5">>),
              "<", <<"%", "3", "C">>),
            ">", <<"%", "3", "E">>),
          "&", <<"%", "2", "6">>),
        "#", <<"%", "2", "3">>))

\* The callback of _rewriteUrls: resolve against the originating module, then
\* make relative to the output module.
rewriteUrl(ctx, url) ==
    [kind |-> "relative",
     result |-> relativePath(ctx.newFile, joinPaths(pathOf(ctx.originalFile), url)),
     path |-> <<>>, size |-> -1, logged |-> <<>>, err |-> FALSE]

\* The data: URI built for a file below the limit: base64, or for an .svg
\* (unless base64 is forced) the escaped text when that is shorter.
\* inlined returning the data: URI bare, with no quotes around it.
inlinedBare(ctx, url, fsPath, fileContents) ==
    LET isSvg == endsWith(url, DotSvg)
        MIME == IF isSvg
                THEN <<"i", "m", "a", "g", "e", "/", "s", "v", "g", "+", "x", "m", "l">>
                ELSE <<"i", "m", "a", "g", "e", "/", "p", "n", "g">>
        b64 == <<";", "b", "a", "s", "e", "6", "4", ",">> \o base64(fileContents)
        encodedData == <<",">> \o svgText(fileContents)
        useText == ~ctx.forceBase64 /\ isSvg /\ Len(encodedData) < Len(b64)
    IN  [kind |-> IF useText THEN "inline-text" ELSE "inline-base64",
         result |-> <<"d", "a", "t", "a", ":">> \o MIME
                       \o (IF useText THEN encodedData ELSE b64),
         path |-> fsPath, size |-> Len(fileContents),
         logged |-> <<replaceChar(fsPath, "\\", <<"/">>)>>, err |-> FALSE]

inlined(ctx, url, fsPath, fileContents) ==
    LET isSvg == endsWith(url, DotSvg)
        MIME == IF isSvg
                THEN <<"i", "m", "a", "g", "e", "/", "s", "v", "g", "+", "x", "m", "l">>
                ELSE <<"i", "m", "a", "g", "e", "/", "p", "n", "g">>
        b64 == <<";", "b", "a", "s", "e", "6", "4", ",">> \o base64(fileContents)
        encodedData == <<",">> \o svgText(fileContents)
        useText == ~ctx.forceBase64 /\ isSvg /\ Len(encodedData) < Len(b64)
    IN  [kind |-> IF useText THEN "inline-text" ELSE "inline-base64",
         result |-> <<"\"", "d", "a", "t", "a", ":">> \o MIME
                       \o (IF useText THEN encodedData ELSE b64) \o <<"\"">>,
         path |-> fsPath, size |-> Len(fileContents),
         logged |-> <<replaceChar(fsPath, "\\", <<"/">>)>>, err |-> FALSE]

\* readAndInline inlining a file whose length equals the limit.
readAndInlineInclusive(ctx, url, fsPath) ==
    IF fsPath \notin DOMAIN AssetFiles
    THEN [kind |-> "throw", result |-> <<>>, path |-> fsPath, size |-> -1,
          logged |-> <<>>, err |-> TRUE]
    ELSE IF Len(AssetFiles[fsPath]) <= ctx.inlineByteLimit
         THEN inlined(ctx, url, fsPath, AssetFiles[fsPath])
         ELSE [rewriteUrl(ctx, url) EXCEPT !.path = fsPath,
                                           !.size = Len(AssetFiles[fsPath])]

\* readAndInline catching a failed read and falling back to the rewrite.
readAndInlineCaught(ctx, url, fsPath) ==
    IF fsPath \notin DOMAIN AssetFiles
    THEN [rewriteUrl(ctx, url) EXCEPT !.path = fsPath]
    ELSE IF Len(AssetFiles[fsPath]) < ctx.inlineByteLimit
         THEN inlined(ctx, url, fsPath, AssetFiles[fsPath])
         ELSE [rewriteUrl(ctx, url) EXCEPT !.path = fsPath,
                                           !.size = Len(AssetFiles[fsPath])]

\* fs.readFileSync(fsPath) and the test against the limit. A read of a
\* missing file throws.
readAndInline(ctx, url, fsPath) ==
    IF fsPath \notin DOMAIN AssetFiles
    THEN [kind |-> "throw", result |-> <<>>, path |-> fsPath, size |-> -1,
          logged |-> <<>>, err |-> TRUE]
    ELSE IF Len(AssetFiles[fsPath]) < ctx.inlineByteLimit
         THEN inlined(ctx, url, fsPath, AssetFiles[fsPath])
         ELSE [rewriteUrl(ctx, url) EXCEPT !.path = fsPath,
                                           !.size = Len(AssetFiles[fsPath])]

\* The callback of _rewriteOrInlineUrls.
rewriteOrInlineUrl(ctx, url) ==
    IF endsWith(url, DotSvg) \/ endsWith(url, DotPng)
    THEN readAndInline(ctx, url, pathJoin(pathDirname(ctx.originalFileFSPath), url))
    ELSE rewriteUrl(ctx, url)

replacer(ctx, url) ==
    IF ctx.inline THEN rewriteOrInlineUrl(ctx, url) ELSE rewriteUrl(ctx, url)

---------------------------------------------------------------------------
(* Utilities.replaceURL                                                    *)

UrlOpen == <<"u", "r", "l", "(">>
Quotes == {"\"", "'"}

\* Where /url\(\s*([^\)]+)\s*\)?/g matches next at or after index i, or -1:
\* 'url(' must be followed by at least one character other than ')'.
nextMatch(contents, i) ==
    LET starts == {p \in i .. (Len(contents) - 5) :
                      /\ substring(contents, p, p + 4) = UrlOpen
                      /\ contents[p + 5] # ")"}
    IN  IF starts = {} THEN -1 ELSE CHOOSE p \in starts : \A q \in starts : p <= q

\* matchAt for the pattern without its trailing \)?: the ')' is left in the text.
matchAtOpen(contents, p) ==
    LET j == p + 4
        close == indexOf(contents, ")", j)
        k == IF close >= 0 THEN close ELSE Len(contents)
        solid == {x \in j .. (k - 1) : ~IsSpace(contents[x + 1])}
        c == IF solid = {} THEN k - 1 ELSE CHOOSE x \in solid : \A y \in solid : x <= y
    IN  [start |-> p, end |-> k,
         closed |-> close >= 0, token |-> substring(contents, c, k)]

\* The match at p: \s* takes the leading white space (all but the last of it
\* when nothing else precedes the terminator), the group takes everything up to
\* the next ')' or the end of the text, and the ')' is consumed when present.
matchAt(contents, p) ==
    LET j == p + 4
        close == indexOf(contents, ")", j)
        k == IF close >= 0 THEN close ELSE Len(contents)
        solid == {x \in j .. (k - 1) : ~IsSpace(contents[x + 1])}
        c == IF solid = {} THEN k - 1 ELSE CHOOSE x \in solid : \A y \in solid : x <= y
    IN  [start |-> p, end |-> IF close >= 0 THEN k + 1 ELSE k,
         closed |-> close >= 0, token |-> substring(contents, c, k)]

RECURSIVE stripTrailingBlanks(_)
stripTrailingBlanks(url) ==
    IF Len(url) > 0 /\ url[Len(url)] \in {" ", "\t"}
    THEN stripTrailingBlanks(substring(url, 0, Len(url) - 1))
    ELSE url

\* The three trimming steps at the head of the replace callback.
stripToken(token) ==
    LET u1 == IF charAt(token, 0) \in Quotes THEN substr(token, 1) ELSE token
        u2 == stripTrailingBlanks(u1)
    IN  IF charAt(u2, Len(u2) - 1) \in Quotes THEN substring(u2, 0, Len(u2) - 1) ELSE u2

DataColon == <<"d", "a", "t", "a", ":">>

\* isQualified without the test for https://.
isQualifiedNoHttps(url) ==
    \/ startsWith(url, DataColon)
    \/ startsWith(url, <<"h", "t", "t", "p", ":", "/", "/">>)

isQualified(url) ==
    \/ startsWith(url, DataColon)
    \/ startsWith(url, <<"h", "t", "t", "p", ":", "/", "/">>)
    \/ startsWith(url, <<"h", "t", "t", "p", "s", ":", "/", "/">>)

\* Qualified tokens are left alone; the replacer sees every other one.
classify(ctx, url) ==
    IF ~isQualified(url) THEN replacer(ctx, url)
    ELSE [kind |-> "passthrough", result |-> url, path |-> <<>>, size |-> -1,
          logged |-> <<>>, err |-> FALSE]

\* One run of the replace callback: the match, the trimmed url, what became of
\* it and the text returned, 'url(' + url + ')'.
eventOf(m, url, r) ==
    [start |-> m.start, end |-> m.end, closed |-> m.closed, token |-> m.token,
     url |-> url, kind |-> r.kind, result |-> r.result, path |-> r.path,
     size |-> r.size, logged |-> r.logged, err |-> r.err,
     replacement |-> IF r.err THEN <<>> ELSE UrlOpen \o r.result \o <<")">>]

replaceMatch(ctx, m) ==
    eventOf(m, stripToken(m.token), classify(ctx, stripToken(m.token)))

\* contents.replace(regex, callback) from index i on; a throwing callback ends it.
RECURSIVE replaceFrom(_, _, _, _)
RECURSIVE replaceAt(_, _, _, _, _, _)
replaceAt(ctx, contents, i, acc, p, ev) ==
    IF ev.err
    THEN [acc EXCEPT !.err = TRUE, !.events = Append(@, ev)]
    ELSE replaceFrom(ctx, contents, ev.end,
            [out |-> acc.out \o substring(contents, i, p) \o ev.replacement,
             events |-> Append(acc.events, ev),
             logged |-> acc.logged \o ev.logged,
             err |-> FALSE])

replaceFrom(ctx, contents, i, acc) ==
    IF nextMatch(contents, i) < 0
    THEN [acc EXCEPT !.out = @ \o substr(contents, i)]
    ELSE replaceAt(ctx, contents, i, acc, nextMatch(contents, i),
                   replaceMatch(ctx, matchAt(contents, nextMatch(contents, i))))

replaceURL(contents, ctx) ==
    replaceFrom(ctx, contents, 0,
                [out |-> <<>>, events |-> <<>>, logged |-> <<>>, err |-> FALSE])

rewriteOrInlineUrls(originalFileFSPath, originalFile, newFile, contents, forceBase64, inlineByteLimit) ==
    replaceURL(contents,
               [inline |-> TRUE, originalFileFSPath |-> originalFileFSPath,
                originalFile |-> originalFile, newFile |-> newFile,
                forceBase64 |-> forceBase64, inlineByteLimit |-> inlineByteLimit])

rewriteUrls(originalFile, newFile, contents) ==
    replaceURL(contents,
               [inline |-> FALSE, originalFileFSPath |-> <<>>,
                originalFile |-> originalFile, newFile |-> newFile,
                forceBase64 |-> FALSE, inlineByteLimit |-> 0])

---------------------------------------------------------------------------
(* CSSPlugin: load, write, writeFile                                       *)

DefaultLimit == 5000

EmptyMap == [x \in {} |-> <<>>]

Banner == << <<"/*---------------------------------------------------------">>,
             <<" * Copyright (c) Microsoft Corporation. All rights reserved.">>,
             <<" *--------------------------------------------------------*/">> >>

\* Array.prototype.join('\r\n')
RECURSIVE joinCRLF(_)
joinCRLF(parts) ==
    IF parts = <<>> THEN <<>>
    ELSE IF Len(parts) = 1 THEN Head(parts)
    ELSE Head(parts) \o <<"\r", "\n">> \o joinCRLF(Tail(parts))

stripBOM(contents) ==
    IF charAt(contents, 0) = BOM THEN substr(contents, 1) ELSE contents

\* load(): the configuration is read first, then the .css file; the two maps
\* are filled only in a build.
Load(name) ==
    /\ name \in DOMAIN cssFiles
    /\ inlineResources' = IF config.inlineResources = "undefined" THEN "false"
                          ELSE config.inlineResources
    /\ inlineResourcesLimit' = IF config.inlineResourcesLimit = 0 THEN DefaultLimit
                               ELSE config.inlineResourcesLimit
    /\ LET cssUrl == toUrl(name \o DotCss)
           contents == stripBOM(cssFiles[name])
       IN  IF config.isBuild
           THEN /\ contentsMap' = (name :> contents) @@ contentsMap
                /\ pathMap' = (name :> cssUrl) @@ pathMap
           ELSE UNCHANGED <<contentsMap, pathMap>>
    /\ UNCHANGED <<config, cssFiles, budget, entryPoints, inlinedResources,
                   markers, calls, wf, pathVars>>

\* this._entryPoints[entryPoint] = this._entryPoints[entryPoint] || []; then push.
\* pushEntry putting the new record in front of the list.
pushEntryFront(eps, entryPoint, entry) ==
    LET old == IF entryPoint \in DOMAIN eps THEN eps[entryPoint] ELSE <<>>
    IN  (entryPoint :> (<<entry>> \o old)) @@ eps

pushEntry(eps, entryPoint, entry) ==
    LET old == IF entryPoint \in DOMAIN eps THEN eps[entryPoint] ELSE <<>>
    IN  (entryPoint :> Append(old, entry)) @@ eps

\* The record write() pushes: contents and fsPath are undefined for a module
\* the maps do not hold.
entryOf(moduleName) ==
    IF moduleName \in DOMAIN contentsMap
    THEN [moduleName |-> moduleName, defined |-> TRUE,
          contents |-> contentsMap[moduleName], fsPath |-> pathMap[moduleName]]
    ELSE [moduleName |-> moduleName, defined |-> FALSE,
          contents |-> <<>>, fsPath |-> <<>>]

\* The host writes the modules of the build, those with a .css file.
Write(moduleName, entryPoint) ==
    /\ Len(calls) < budget.writes
    /\ moduleName \in DOMAIN cssFiles
    /\ entryPoints' = pushEntry(entryPoints, entryPoint, entryOf(moduleName))
    /\ markers' = markers \cup {<<moduleName, entryPoint>>}
    /\ calls' = Append(calls, [entryPoint |-> entryPoint, entry |-> entryOf(moduleName)])
    /\ UNCHANGED <<config, cssFiles, budget, inlineResources, inlineResourcesLimit,
                   contentsMap, pathMap, inlinedResources, wf, pathVars>>

\* The body of writeFile's loop for one entry, under this.inlineResources and
\* this.inlineResourcesLimit. Undefined contents make contents.replace throw.
rewriteEntry(mode, limit, entry, newFile) ==
    IF ~entry.defined
    THEN [out |-> <<>>, events |-> <<>>, logged |-> <<>>, err |-> TRUE]
    ELSE IF mode # "false"
         THEN rewriteOrInlineUrls(entry.fsPath, entry.moduleName, newFile, entry.contents,
                                  mode = "base64", limit)
         ELSE rewriteUrls(entry.moduleName, newFile, entry.contents)

\* writeFile's loop: a throw leaves it at once, what was logged stays logged.
RECURSIVE rewriteEntries(_, _, _, _, _)
RECURSIVE afterEntry(_, _, _, _, _, _)
afterEntry(mode, limit, entries, newFile, acc, r) ==
    IF r.err
    THEN [parts |-> acc.parts, events |-> Append(acc.events, r.events),
          logged |-> acc.logged \o r.logged, err |-> TRUE]
    ELSE rewriteEntries(mode, limit, Tail(entries), newFile,
            [parts |-> Append(acc.parts, r.out), events |-> Append(acc.events, r.events),
             logged |-> acc.logged \o r.logged, err |-> FALSE])

rewriteEntries(mode, limit, entries, newFile, acc) ==
    IF entries = <<>> THEN acc
    ELSE afterEntry(mode, limit, entries, newFile, acc,
                    rewriteEntry(mode, limit, Head(entries), newFile))

NoCall == [n |-> 0, ep |-> <<>>, outcome |-> "none", emitted |-> FALSE,
           fileName |-> <<>>, blob |-> <<>>, entries |-> <<>>, events |-> <<>>,
           logBefore |-> <<>>, mode |-> "false", limit |-> 0]

\* What a writeFile() call over `entries` leaves behind: the log, and the
\* host's callback write(fileName, contents.join('\r\n')) unless the loop threw.
finishWriteFile(moduleName, entries, res) ==
    /\ inlinedResources' = inlinedResources \o res.logged
    /\ wf' = [n |-> wf.n + 1, ep |-> moduleName,
              outcome |-> IF res.err THEN "error" ELSE "ok",
              emitted |-> ~res.err,
              fileName |-> IF res.err THEN <<>> ELSE toUrl(moduleName \o DotCss),
              blob |-> IF res.err THEN <<>> ELSE joinCRLF(res.parts),
              entries |-> entries, events |-> res.events,
              logBefore |-> inlinedResources,
              mode |-> inlineResources, limit |-> inlineResourcesLimit]

WriteFile(moduleName) ==
    /\ wf.n < budget.writeFiles
    /\ IF moduleName \in DOMAIN entryPoints
       THEN finishWriteFile(moduleName, entryPoints[moduleName],
               rewriteEntries(inlineResources, inlineResourcesLimit,
                  entryPoints[moduleName], moduleName,
                  [parts |-> Banner, events |-> <<>>, logged |-> <<>>, err |-> FALSE]))
       ELSE /\ wf' = [NoCall EXCEPT !.n = wf.n + 1, !.ep = moduleName,
                                    !.outcome = "skipped",
                                    !.logBefore = inlinedResources,
                                    !.mode = inlineResources,
                                    !.limit = inlineResourcesLimit]
            /\ UNCHANGED inlinedResources
    /\ UNCHANGED <<config, cssFiles, budget, inlineResources, inlineResourcesLimit,
                   contentsMap, pathMap, entryPoints, markers, calls, pathVars>>

\* The plugin as constructed.
PluginNew ==
    /\ inlineResources = "false"
    /\ inlineResourcesLimit = DefaultLimit
    /\ contentsMap = EmptyMap
    /\ pathMap = EmptyMap
    /\ entryPoints = EmptyMap
    /\ inlinedResources = <<>>
    /\ markers = {}
    /\ calls = <<>>
    /\ wf = NoCall

\* No build runs: the specifications of the path algebra alone.
PluginOff ==
    /\ PluginNew
    /\ config = [isBuild |-> FALSE, inlineResources |-> "undefined", inlineResourcesLimit |-> 0]
    /\ cssFiles = EmptyMap
    /\ budget = [writes |-> 0, writeFiles |-> 0]

---------------------------------------------------------------------------
(* The builds explored                                                     *)

ModuleAM == <<"a", "/", "m">>
ModuleN == <<"n">>
EntryOE == <<"o", "/", "e">>
EntryE == <<"e">>
Modules == {ModuleAM, ModuleN}
EntryPointNames == {EntryOE, EntryE}

UrlTokens ==
    { <<"i", ".", "p", "n", "g">>,
      <<".", ".", "/", "s", ".", "s", "v", "g">>,
      <<"s", ".", "s", "v", "g">>,
      <<"g", "o", "n", "e", ".", "p", "n", "g">>,
      <<"b", "/", "x">>,
      <<"/", "i", ".", "p", "n", "g">>,
      <<"/", "a", "/", ".", "/", "x">>,
      <<"d", "a", "t", "a", ":", "x">>,
      <<"h", "t", "t", "p", ":", "/", "/", "h", "/", "i", ".", "p", "n", "g">>,
      <<"h", "t", "t", "p", "s", ":", "/", "/", "h", "/", "i", ".", "p", "n", "g">> }

QuotePairs == { <<<<>>, <<>>>>, <<<<"\"">>, <<"\"">>>>, <<<<"'">>, <<"'">>>>, <<<<"\"">>, <<>>>> }
BlankPairs == { <<<<>>, <<>>>>, <<<<" ">>, <<" ", "\t">>>> }
Closers == { <<")">>, <<>> }

\* One url(...) occurrence in every quoting, spacing and termination, and a
\* few texts the scan should leave alone.
TokenTexts ==
    { UrlOpen \o b[1] \o q[1] \o t \o q[2] \o b[2] \o c :
        t \in UrlTokens, q \in QuotePairs, b \in BlankPairs, c \in Closers }
    \cup { <<"u", "r", "l", "(", ")">>, <<"u", "r", "l", "(", " ", ")">>,
           <<"u", "r", "l", "(">>, <<"x", ";">> }

TokenWrites == 1
TokenWriteFiles == 1

Init ==
    /\ PluginNew
    /\ config \in [isBuild : {TRUE}, inlineResources : {"undefined", "true", "base64"},
                   inlineResourcesLimit : {0, 3, 6}]
    /\ \E m \in Modules, t \in TokenTexts : cssFiles = (m :> t)
    /\ budget = [writes |-> TokenWrites, writeFiles |-> TokenWriteFiles]
    /\ jp = [pc |-> "off"]
    /\ rt = [pc |-> "off"]

Next ==
    \/ \E name \in Modules : Load(name)
    \/ \E moduleName \in Modules, entryPoint \in EntryPointNames : Write(moduleName, entryPoint)
    \/ \E moduleName \in EntryPointNames : WriteFile(moduleName)

Spec == Init /\ [][Next]_vars

\* A build of two modules feeding two entry points, in any interleaving.
BundleFiles ==
    (ModuleAM :> (UrlOpen \o <<"s", ".", "s", "v", "g", ")", ";">>
                  \o UrlOpen \o <<"g", "o", "n", "e", ".", "p", "n", "g", ")">>))
 @@ (ModuleN :> (<<BOM>> \o UrlOpen \o <<"\"", "i", ".", "p", "n", "g", "\"", ")">>))

BundleWrites == 3
BundleWriteFiles == 1

InitBundle ==
    /\ PluginNew
    /\ config \in [isBuild : {TRUE}, inlineResources : {"undefined", "false", "true", "base64"},
                    inlineResourcesLimit : {0}]
                \cup {[isBuild |-> TRUE, inlineResources |-> "true", inlineResourcesLimit |-> 3],
                      [isBuild |-> FALSE, inlineResources |-> "true", inlineResourcesLimit |-> 0]}
    /\ cssFiles = BundleFiles
    /\ budget = [writes |-> BundleWrites, writeFiles |-> BundleWriteFiles]
    /\ jp = [pc |-> "off"]
    /\ rt = [pc |-> "off"]

SpecBundle == InitBundle /\ [][Next]_vars

---------------------------------------------------------------------------
(* Bounded inputs of the path algebra                                      *)

MaxBaseChunks == 2
MaxRelChunks == 2

SegChunks == { <<"a">>, <<"a", "/">>, <<"b", "/">>, Slash, DotSlash, DotDotSlash }

Schemes == { <<>>, <<"/", "/">>,
             <<"h", "t", "t", "p", ":", "/", "/">>,
             <<"h", "t", "t", "p", "s", ":", "/", "/">> }

RECURSIVE Words(_, _)
Words(chunks, n) ==
    IF n = 0 THEN { <<>> }
    ELSE LET shorter == Words(chunks, n - 1)
         IN  shorter \cup { w \o c : w \in shorter, c \in chunks }

Bases == { s \o w : s \in Schemes, w \in Words(SegChunks, MaxBaseChunks) }
Rels == Words(SegChunks, MaxRelChunks)

---------------------------------------------------------------------------
(* Utilities.joinPaths, one loop iteration per step                        *)

JpIdle == [pc |-> "start", a |-> <<>>, b |-> <<>>, pieces |-> <<>>, rest |-> <<>>,
           prev |-> <<>>, piece |-> <<>>, result |-> <<>>]

\* let pieces = []; push(pieces, a.substr(aPathStartIndex)) is entered.
JoinBegin ==
    /\ jp.pc = "start"
    /\ jp' = [jp EXCEPT !.pc = "pushA",
                        !.rest = substr(jp.a, aPathStartIndex(jp.a))]
    /\ UNCHANGED <<rt, pluginVars>>

\* One iteration of the while loop of push: split, then pushPiece.
PushIter ==
    /\ jp.pc \in {"pushA", "pushB"}
    /\ Len(jp.rest) > 0
    /\ jp' = [jp EXCEPT !.prev = jp.pieces,
                        !.piece = headPiece(jp.rest),
                        !.pieces = pushPiece(jp.pieces, headPiece(jp.rest)),
                        !.rest = tailPath(jp.rest)]
    /\ UNCHANGED <<rt, pluginVars>>

\* push(pieces, a...) returned: if b is absolute the pieces are reset; push(pieces, b).
JoinSwitch ==
    /\ jp.pc = "pushA"
    /\ Len(jp.rest) = 0
    /\ jp' = [jp EXCEPT !.pc = "pushB",
                        !.pieces = IF Len(jp.b) > 0 /\ charAt(jp.b, 0) = "/"
                                   THEN <<>> ELSE jp.pieces,
                        !.prev = <<>>,
                        !.piece = <<>>,
                        !.rest = jp.b]
    /\ UNCHANGED <<rt, pluginVars>>

\* return a.substring(0, aPathStartIndex) + pieces.join('')
JoinEnd ==
    /\ jp.pc = "pushB"
    /\ Len(jp.rest) = 0
    /\ jp' = [jp EXCEPT !.pc = "done",
                        !.result = substring(jp.a, 0, aPathStartIndex(jp.a))
                                       \o joinEmpty(jp.pieces)]
    /\ UNCHANGED <<rt, pluginVars>>

InitJoin ==
    /\ \E a \in Bases, b \in Rels : jp = [JpIdle EXCEPT !.a = a, !.b = b]
    /\ rt = [pc |-> "off"]
    /\ PluginOff

NextJoin == JoinBegin \/ PushIter \/ JoinSwitch \/ JoinEnd

SpecJoin == InitJoin /\ [][NextJoin]_vars

---------------------------------------------------------------------------
(* The round trip of the path algebra: resolve, relativize, resolve again  *)

\* absoluteUrl = Utilities.joinPaths(Utilities.pathOf(originalFile), url)
Resolve ==
    /\ rt.pc = "start"
    /\ rt' = [rt EXCEPT !.pc = "resolved",
                        !.abs = joinPaths(pathOf(rt.from), rt.rel)]
    /\ UNCHANGED <<jp, pluginVars>>

\* Utilities.relativePath(newFile, absoluteUrl), with newFile the same location
Relativize ==
    /\ rt.pc = "resolved"
    /\ rt' = [rt EXCEPT !.pc = "relativized",
                        !.r = relativePath(rt.from, rt.abs)]
    /\ UNCHANGED <<jp, pluginVars>>

Rejoin ==
    /\ rt.pc = "relativized"
    /\ rt' = [rt EXCEPT !.pc = "done",
                        !.back = joinPaths(pathOf(rt.from), rt.r)]
    /\ UNCHANGED <<jp, pluginVars>>

InitRoundTrip ==
    /\ \E f \in Bases, rel \in Rels :
          rt = [pc |-> "start", from |-> f, rel |-> rel,
                abs |-> <<>>, r |-> <<>>, back |-> <<>>]
    /\ jp = [pc |-> "off"]
    /\ PluginOff

NextRoundTrip == Resolve \/ Relativize \/ Rejoin

SpecRoundTrip == InitRoundTrip /\ [][NextRoundTrip]_vars

---------------------------------------------------------------------------
(* Claims about the path algebra                                           *)

Http == <<"h", "t", "t", "p", ":", "/", "/">>
Https == <<"h", "t", "t", "p", "s", ":", "/", "/">>

IsProtocolQualified(s) ==
    startsWith(s, <<"/", "/">>) \/ startsWith(s, Http) \/ startsWith(s, Https)

\* A reference that is neither absolute nor protocol- or data-qualified.
IsRelativeRef(s) ==
    /\ ~startsWith(s, Slash)
    /\ ~startsWith(s, Http)
    /\ ~startsWith(s, Https)
    /\ ~startsWith(s, <<"d", "a", "t", "a", ":">>)

\* The '/'-terminated segments of a path, and its last, unterminated one.
RECURSIVE Segments(_)
Segments(path) ==
    IF Len(path) = 0 THEN <<>> ELSE <<headPiece(path)>> \o Segments(tailPath(path))

HasDotSegment(s) ==
    \E i \in 1 .. Len(Segments(s)) : Segments(s)[i] \in {DotSlash, DotDotSlash}

HasEmptySegment(s) ==
    \E i \in 1 .. Len(Segments(s)) : Segments(s)[i] = Slash

\* C5 as stated: for all logical locations from and relative references rel,
\* with abs = joinPaths(pathOf(from), rel) and r = relativePath(from, abs),
\* joinPaths(pathOf(from), r) equals abs.
C5_RoundTripAsClaimed ==
    (rt.pc = "done" /\ IsRelativeRef(rt.rel)) => rt.back = rt.abs

\* C5 amended: the round trip holds for every from that is not
\* protocol-qualified (does not begin with //, http:// or https://) and has no
\* ./ or ../ segment, and every relative reference rel with no empty segment
\* (no // in it).
C5_RoundTripPlainFrom ==
    (/\ rt.pc = "done"
     /\ IsRelativeRef(rt.rel)
     /\ ~HasEmptySegment(rt.rel)
     /\ ~IsProtocolQualified(rt.from)
     /\ ~HasDotSegment(rt.from)) => rt.back = rt.abs

\* A round trip that ascends: from a/b/<file>, a reference climbing out of b/.
C5_Witness ==
    /\ rt.pc = "done"
    /\ IsRelativeRef(rt.rel)
    /\ ~IsProtocolQualified(rt.from)
    /\ ~HasDotSegment(rt.from)
    /\ ~HasEmptySegment(rt.rel)
    /\ Len(pathOf(rt.from)) > 0
    /\ startsWith(rt.rel, DotDotSlash)
    /\ startsWith(rt.r, DotDotSlash)
    /\ Len(rt.abs) > 0
    /\ rt.back = rt.abs

Last(seq) == seq[Len(seq)]
Front(seq) == SubSeq(seq, 1, Len(seq) - 1)

JoinedExample ==
    joinPaths(<<"a", "/", "b", "/">>, <<".", ".", "/", "c">>) = <<"a", "/", "c">>

\* C6 as stated: in joinPaths a ../ segment pops the previously pushed segment,
\* except when the previous segment is a root slash / or is itself ../, in both
\* of which cases the ../ is pushed; a ./ segment is dropped and every other
\* segment is pushed; joinPaths('a/b/', '../c') = 'a/c'.
C6_PushPieceAsClaimed ==
    /\ (jp.pc \in {"pushA", "pushB"} /\ jp.piece # <<>>) =>
          IF jp.piece = DotSlash THEN jp.pieces = jp.prev
          ELSE IF /\ jp.piece = DotDotSlash
                  /\ jp.prev # <<>>
                  /\ Last(jp.prev) \notin {Slash, DotDotSlash}
               THEN jp.pieces = Front(jp.prev)
          ELSE jp.pieces = Append(jp.prev, jp.piece)
    /\ JoinedExample

\* C6 amended: a ../ segment pops the previously pushed segment; when the
\* previous segment is a root slash / the ../ is dropped (neither popped nor
\* pushed); when the previous segment is ../ or there is none, the ../ is
\* pushed. A ./ segment is dropped, every other segment is pushed, and
\* joinPaths('a/b/', '../c') = 'a/c'.
C6_PushPieceRootDrops ==
    /\ (jp.pc \in {"pushA", "pushB"} /\ jp.piece # <<>>) =>
          IF jp.piece = DotSlash THEN jp.pieces = jp.prev
          ELSE IF jp.piece = DotDotSlash /\ jp.prev # <<>> /\ Last(jp.prev) = Slash
               THEN jp.pieces = jp.prev
          ELSE IF jp.piece = DotDotSlash /\ jp.prev # <<>> /\ Last(jp.prev) # DotDotSlash
               THEN jp.pieces = Front(jp.prev)
          ELSE jp.pieces = Append(jp.prev, jp.piece)
    /\ JoinedExample

\* A ../ met right after a root slash, and left out of the segment list.
C6_Witness ==
    /\ jp.pc \in {"pushA", "pushB"}
    /\ jp.piece = DotDotSlash
    /\ jp.prev # <<>>
    /\ Last(jp.prev) = Slash
    /\ jp.pieces = jp.prev

\* The scheme base begins with, and the protocol+host prefix the claim names:
\* up to the next / after the scheme, or all of base when there is none.
SchemeOf(base) ==
    IF startsWith(base, <<"/", "/">>) THEN <<"/", "/">>
    ELSE IF startsWith(base, Http) THEN Http
    ELSE IF startsWith(base, Https) THEN Https
    ELSE <<>>

ProtocolHostPrefix(base) ==
    LET slash == indexOf(base, "/", Len(SchemeOf(base)))
    IN  IF slash >= 0 THEN substring(base, 0, slash) ELSE base

\* C7 as stated: for every base beginning with //, http:// or https:// and
\* every relative, joinPaths(base, relative) begins with base's protocol+host
\* prefix (up to the next / after the scheme, or the end of base): the host is
\* never consumed or popped by segment processing.
C7_HostPrefixKept ==
    (jp.pc = "done" /\ IsProtocolQualified(jp.a)) =>
        startsWith(jp.result, ProtocolHostPrefix(jp.a))

---------------------------------------------------------------------------
(* Claims about the rewriter and the plugin                                *)

\* P holds of every run of the replace callback in the last writeFile(), with
\* the entry whose contents it ran on.
ForAllEvents(P(_, _)) ==
    \A i \in 1 .. Len(wf.events) :
        \A j \in 1 .. Len(wf.events[i]) : P(wf.entries[i], wf.events[i][j])

SomeEvent(P(_, _)) ==
    \E i \in 1 .. Len(wf.events) :
        \E j \in 1 .. Len(wf.events[i]) : P(wf.entries[i], wf.events[i][j])

BeginsQualified(s) ==
    startsWith(s, DataColon) \/ startsWith(s, Http) \/ startsWith(s, Https)

RECURSIVE TrimBlanks(_)
TrimBlanks(s) ==
    IF Len(s) > 0 /\ s[1] \in {" ", "\t"} THEN TrimBlanks(Tail(s))
    ELSE IF Len(s) > 0 /\ s[Len(s)] \in {" ", "\t"} THEN TrimBlanks(Front(s))
    ELSE s

\* A token without its surrounding white space and one leading and one
\* trailing quote.
Stripped(token) ==
    LET t == TrimBlanks(token)
        t1 == IF Len(t) > 0 /\ t[1] \in Quotes THEN Tail(t) ELSE t
    IN  IF Len(t1) > 0 /\ t1[Len(t1)] \in Quotes THEN Front(t1) ELSE t1

IsImage(url) == endsWith(url, DotSvg) \/ endsWith(url, DotPng)
InlineKinds == {"inline-base64", "inline-text"}

\* The file an image reference of an entry names, and the rewrite it gets
\* when it is not inlined.
CandidatePath(entry, url) == pathJoin(pathDirname(entry.fsPath), url)
RelativeRewrite(entry, url) ==
    relativePath(wf.ep, joinPaths(pathOf(entry.moduleName), url))

RECURSIVE Flatten(_)
Flatten(seqs) == IF seqs = <<>> THEN <<>> ELSE Head(seqs) \o Flatten(Tail(seqs))

LoggedBy(events) == Flatten([k \in 1 .. Len(events) |-> events[k].logged])
LoggedByCall == Flatten([i \in 1 .. Len(wf.events) |-> LoggedBy(wf.events[i])])

C1_Holds(entry, e) ==
    BeginsQualified(Stripped(e.token)) =>
        /\ e.url = Stripped(e.token)
        /\ e.kind = "passthrough"
        /\ e.result = Stripped(e.token)
        /\ e.replacement = UrlOpen \o Stripped(e.token) \o <<")">>
        /\ e.path = <<>>
        /\ e.logged = <<>>

\* C1: a url(...) token that, stripped of surrounding white space and one
\* leading/trailing quote, begins with data:, http:// or https:// is emitted
\* as that stripped token in every inlining mode; the replacer is not invoked,
\* no file is read and the Inlined-Resource Log is not appended to.
C1_QualifiedPassThrough == ForAllEvents(C1_Holds)

C1_Case(entry, e) ==
    /\ BeginsQualified(e.url)
    /\ IsImage(e.url)
    /\ Len(e.token) > Len(e.url)
    /\ e.replacement = UrlOpen \o e.url \o <<")">>

\* A quoted http(s) reference to a .png, written with inlining on.
C1_Witness ==
    /\ wf.outcome = "ok"
    /\ wf.mode \in {"true", "base64"}
    /\ SomeEvent(C1_Case)
    /\ inlinedResources = <<>>

C2_Holds(entry, e) ==
    startsWith(e.url, Slash) => (e.result = e.url /\ e.logged = <<>>)

\* C2: a url(...) token that begins with / is never altered by writeFile,
\* whatever the originating and target locations, the inlining mode and the
\* size of the file it names: the emitted token equals the stripped input
\* token and the Inlined-Resource Log is unchanged.
C2_AbsoluteUntouched ==
    /\ ForAllEvents(C2_Holds)
    /\ (SomeEvent(LAMBDA entry, e : TRUE) /\ ForAllEvents(LAMBDA entry, e : startsWith(e.url, Slash)))
          => inlinedResources = wf.logBefore

Unquoted(s) ==
    IF Len(s) >= 2 /\ s[1] = "\"" /\ s[Len(s)] = "\"" THEN SubSeq(s, 2, Len(s) - 1) ELSE s

C3_Holds(entry, e) ==
    (/\ wf.mode # "false"
     /\ IsRelativeRef(e.url)
     /\ IsImage(e.url)
     /\ CandidatePath(entry, e.url) \in DOMAIN AssetFiles) =>
        IF Len(AssetFiles[CandidatePath(entry, e.url)]) < wf.limit
        THEN /\ e.kind \in InlineKinds
             /\ startsWith(Unquoted(e.result), DataColon)
             /\ e.result # RelativeRewrite(entry, e.url)
             /\ e.logged = <<CandidatePath(entry, e.url)>>
        ELSE /\ e.kind = "relative"
             /\ e.result = RelativeRewrite(entry, e.url)
             /\ e.logged = <<>>

\* C3: with inlining enabled, a relative url(...) token ending in .svg or
\* .png is inlined if and only if the file's byte length is strictly less than
\* the limit in force. When inlined the emitted token is a data: URI and the
\* resolved path is appended to the Inlined-Resource Log once for that
\* occurrence; otherwise the emitted token is the recomputed relative path and
\* the log is left as it was.
C3_InlineIffBelowLimit ==
    /\ ForAllEvents(C3_Holds)
    /\ inlinedResources = wf.logBefore \o LoggedByCall

C3_Case(entry, e) ==
    /\ IsRelativeRef(e.url)
    /\ IsImage(e.url)
    /\ e.kind \in InlineKinds
    /\ e.size + 1 = wf.limit

\* A file one byte below the limit is inlined and logged.
C3_Witness ==
    /\ wf.outcome = "ok"
    /\ wf.mode = "true"
    /\ SomeEvent(C3_Case)
    /\ Len(inlinedResources) = Len(wf.logBefore) + 1

NoQuote(s) == \A k \in 1 .. Len(s) : s[k] \notin Quotes

C4_Claimed(entry, e) ==
    ~e.err =>
        /\ e.replacement = UrlOpen \o e.result \o <<")">>
        /\ charAt(e.replacement, 4) \notin Quotes
        /\ charAt(e.replacement, Len(e.replacement) - 2) \notin Quotes

\* C4 as stated: every replacement is url(<result>) with no quote around
\* <result>, whatever the input quoting and whichever branch is taken
\* (passthrough, relative rewrite, base64 inline, escaped SVG inline).
C4_NeverQuotedAsClaimed == ForAllEvents(C4_Claimed)

C4_Holds(entry, e) ==
    ~e.err =>
        /\ e.replacement = UrlOpen \o e.result \o <<")">>
        /\ (e.kind \in {"passthrough", "relative"} /\ NoQuote(e.url)) => NoQuote(e.result)
        /\ e.kind \in InlineKinds =>
              /\ Len(e.result) >= 2
              /\ e.result[1] = "\""
              /\ e.result[Len(e.result)] = "\""
              /\ startsWith(Unquoted(e.result), DataColon)
              /\ \A k \in 1 .. Len(Unquoted(e.result)) : Unquoted(e.result)[k] # "\""

\* C4 amended: every replacement is url(<result>); in the passthrough and
\* relative-rewrite branches <result> carries no quote when the stripped token
\* (and the module names) carry none; in both inline branches <result> is the
\* data: URI enclosed in a pair of double quotes, url("data:..."), the URI
\* itself holding no double quote.
C4_QuotedOnlyWhenInlined == ForAllEvents(C4_Holds)

C4_Case(entry, e) ==
    /\ e.kind = "inline-text"
    /\ charAt(e.token, 0) = "'"
    /\ charAt(e.replacement, 4) = "\""

\* A single-quoted .svg reference inlined as escaped text, emitted in double quotes.
C4_Witness == wf.outcome = "ok" /\ SomeEvent(C4_Case)

HasChar(s, c) == \E k \in 1 .. Len(s) : s[k] = c

C10_Claimed(entry, e) ==
    /\ substring(entry.contents, e.start, e.start + 4) = UrlOpen
    /\ ~HasChar(e.token, ")")
    /\ indexOf(entry.contents, ")", e.start + 4) >= 0
    /\ e.end = indexOf(entry.contents, ")", e.start + 4) + 1

\* C10 as stated: every replaced span is a complete url(...) token: it starts
\* with url(, has no ) inside its token and ends at the next ); a url( that no
\* ) follows is not recognised, so nothing is replaced and no ) is added.
C10_OnlyCompleteTokensAsClaimed == ForAllEvents(C10_Claimed)

\* The text with the spans of the events replaced, everything else kept.
RECURSIVE Splice(_, _, _)
Splice(contents, events, from) ==
    IF events = <<>> THEN substr(contents, from)
    ELSE substring(contents, from, Head(events).start) \o Head(events).replacement
            \o Splice(contents, Tail(events), Head(events).end)

C10_Holds(entry, e) ==
    /\ substring(entry.contents, e.start, e.start + 4) = UrlOpen
    /\ ~HasChar(e.token, ")")
    /\ Len(e.token) > 0
    /\ IF indexOf(entry.contents, ")", e.start + 4) >= 0
       THEN /\ e.end = indexOf(entry.contents, ")", e.start + 4) + 1
            /\ e.token = substring(entry.contents, e.end - 1 - Len(e.token), e.end - 1)
       ELSE /\ e.end = Len(entry.contents)
            /\ e.token = substr(entry.contents, e.end - Len(e.token))
    /\ ~e.err => e.replacement[Len(e.replacement)] = ")"

\* C10 amended: every replaced span starts with url( and has no ) inside its
\* (non-empty) token; it ends at the next ) when there is one, and otherwise
\* runs to the end of the text, in which case the replacement url(<result>)
\* is still emitted, with a closing ) the text did not have. The text outside
\* the replaced spans is left as it was.
C10_SpanToNextParenOrEnd ==
    /\ ForAllEvents(C10_Holds)
    /\ wf.outcome = "ok" =>
          wf.blob = joinCRLF(Banner \o [i \in 1 .. Len(wf.entries) |->
                                          Splice(wf.entries[i].contents, wf.events[i], 0)])

C10_Case(entry, e) ==
    /\ ~e.closed
    /\ e.end = Len(entry.contents)
    /\ ~HasChar(entry.contents, ")")
    /\ e.replacement[Len(e.replacement)] = ")"

\* An unterminated url( whose replacement was emitted.
C10_Witness == wf.outcome = "ok" /\ wf.emitted /\ SomeEvent(C10_Case)

\* The blob writeFile(ep) owes the host after the write() calls so far.
ExpectedBlob(ep, mode, limit) ==
    LET mine == SelectSeq(calls, LAMBDA c : c.entryPoint = ep)
    IN  joinCRLF(Banner \o [k \in 1 .. Len(mine) |->
                              rewriteEntry(mode, limit, mine[k].entry, ep).out])

CountOf(s, c) == Cardinality({k \in 1 .. Len(s) : s[k] = c})

\* C8: after any interleaving of write() calls for several entry points,
\* writeFile(E) emits one blob: the banner once, then the rewritten contents of
\* exactly the modules whose write() named E, in the order of those calls,
\* joined by CRLF.
C8_BlobInWriteOrder ==
    [][(wf'.n = wf.n + 1 /\ wf'.outcome = "ok") =>
          /\ wf'.emitted
          /\ wf'.fileName = toUrl(wf'.ep \o DotCss)
          /\ wf'.blob = ExpectedBlob(wf'.ep, wf'.mode, wf'.limit)
          /\ CountOf(wf'.blob, Banner[1][1]) = 1
          /\ startsWith(wf'.blob, joinCRLF(Banner))]_vars

\* Two different modules written to one entry point with a write() to the
\* other entry point between them, and the file emitted.
C8_Witness ==
    /\ wf.outcome = "ok"
    /\ wf.emitted
    /\ Len(wf.entries) = 2
    /\ wf.entries[1].moduleName # wf.entries[2].moduleName
    /\ Len(calls) = 3
    /\ calls[1].entryPoint = wf.ep
    /\ calls[2].entryPoint # wf.ep
    /\ calls[3].entryPoint = wf.ep
    /\ wf.blob = joinCRLF(Banner \o <<Splice(wf.entries[1].contents, wf.events[1], 0),
                                      Splice(wf.entries[2].contents, wf.events[2], 0)>>)

ReadFails(entry, e) ==
    /\ wf.mode # "false"
    /\ ~BeginsQualified(e.url)
    /\ IsImage(e.url)
    /\ CandidatePath(entry, e.url) \notin DOMAIN AssetFiles

C9_Thrown(entry, e) == ReadFails(entry, e) => (e.kind = "throw" /\ e.replacement = <<>>)

\* C9: a failing read of an inlining candidate is not caught: writeFile ends
\* in an error, the host's write callback is not invoked for that unit, and
\* the failing token is not replaced by a relative path.
C9_ReadFailureAborts ==
    SomeEvent(ReadFails) =>
        /\ wf.outcome = "error"
        /\ ~wf.emitted
        /\ wf.blob = <<>>
        /\ wf.fileName = <<>>
        /\ ForAllEvents(C9_Thrown)

\* The read failed after an earlier token of the same unit had been inlined.
C9_Witness ==
    /\ SomeEvent(ReadFails)
    /\ wf.outcome = "error"
    /\ Len(inlinedResources) > Len(wf.logBefore)

=============================================================================
